---------------------------- MODULE Spec2Model ----------------------------
(***************************************************************************)
(* cadquery/occ_impl/assembly.py: the Color value object and toCAF, the    *)
(* conversion of an assembly tree into an OCAF document.                   *)
(*                                                                         *)
(* The OCAF kernel (TDocStd_Document, XCAFDoc shape and color tools) is    *)
(* modelled by what toCAF asks of it: a document is a sequence of labels   *)
(* made by NewShape, each with a name, a shape, a surface color and a list *)
(* of component links (referred label, placement).                         *)
(***************************************************************************)
EXTENDS Integers, Sequences, FiniteSets, TLC

\* ------------------------------------------------------------------ bounds
NumNodes == 3          \* nodes of the assembly trees explored

\* ------------------------------------------------------------- value sets
None     == "None"
Nodes    == 1 .. NumNodes
NoParent == 0
NameSeq  == <<"a", "b", "c", "d", "e">>
Names    == { NameSeq[i] : i \in Nodes }
ColorSeq == <<"red", "green", "blue", "black", "white">>
NoErr    == [type |-> "None", key |-> "", line |-> 0]
NoLabel  == [doc |-> 0, tag |-> 0]
NoResult == <<NoLabel, 0>>
Identity == <<"loc", 0>>                  \* TopLoc_Location()
RootName == "CQ assembly"

VARIABLES
    \* the assembly tree handed to toCAF (AssemblyProtocol)
    parent,        \* node -> parent node, NoParent at a root
    name,          \* node -> name
    loc,           \* node -> placement
    color,         \* node -> Color or None
    shapes,        \* node -> the node's own shapes
    assy,          \* the node toCAF is called on
    coloredSTEP,   \* the flag of the call
    \* the kernel
    docs,          \* every TDocStd_Document made so far: a sequence of label sequences
    updated,       \* per document: UpdateAssemblies has run
    \* the locals of the running toCAF
    pc,            \* "idle", "loop", "done", "error"
    doc,           \* index of the document of this call
    top,           \* the root label
    subassys,      \* name -> <<assembly label, placement>>
    yielded,       \* the pairs traverse() has yielded, with the labels made for them
    result,        \* NoResult or the returned <<top, doc>>
    err,           \* NoErr or the exception raised, with the line raising it
    history,       \* the finished calls on this tree
    \* Color.__init__
    cargs, ckwargs, cwrapped, cerr

treeVars  == <<parent, name, loc, color, shapes, assy, coloredSTEP>>
callVars  == <<docs, updated, pc, doc, top, subassys, yielded, result, err>>
colorVars == <<cargs, ckwargs, cwrapped, cerr>>
vars      == <<treeVars, callVars, history, colorVars>>

\* --------------------------------------------------------------- the tree
\* v.children, in insertion order
children(v) ==
    LET RECURSIVE upTo(_)
        upTo(n) == IF n = 0 THEN <<>>
                   ELSE IF parent[n] = v THEN Append(upTo(n - 1), n)
                   ELSE upTo(n - 1)
    IN  upTo(NumNodes)

\* Compound.makeCompound(v.shapes)
makeCompound(ss) == [compound |-> ss]

\* ------------------------------------------------------------- the kernel
Label(d, t) == [doc |-> d, tag |-> t]

\* XCAFDoc_ShapeTool.NewShape: a fresh label holding an empty compound
NewShape(L) ==
    Append(L, [name |-> None, shape |-> makeCompound({}), color |-> None,
               comps |-> <<>>])

SetShape(L, t, s) == [L EXCEPT ![t].shape = s]

setName(L, t, n) == [L EXCEPT ![t].name = n]

setColor(L, t, c) == [L EXCEPT ![t].color = c]

AddComponent(L, t, ref, where) ==
    [L EXCEPT ![t].comps = Append(@, [ref |-> ref, loc |-> where])]

\* ---------------------------------------------------------------- toCAF
\* a document kept from one call to the next
TDocStd_Document_shared(ds) == IF ds = <<>> THEN Append(ds, <<>>) ELSE ds

\* doc = TDocStd_Document(...): a new, empty document
TDocStd_Document(ds) == Append(ds, <<>>)

\* the part also takes the shapes of the node's children
leafPart_withChildren(L, lab, k, v) ==
    setName(SetShape(NewShape(L), lab,
                     makeCompound(shapes[v] \cup
                         UNION { shapes[c] : c \in { n \in Nodes : parent[n] = v } })),
            lab, k \o "_part")

\* lines 114-116: the leaf part of the pair (k, v), made as label lab
leafPart(L, lab, k, v) ==
    setName(SetShape(NewShape(L), lab, makeCompound(shapes[v])), lab, k \o "_part")

\* lines 119-121: the assembly label of the pair, holding the part at the identity
assyPart(L, d, lab, subassy, k) ==
    setName(AddComponent(NewShape(L), subassy, Label(d, lab), Identity), subassy, k)

\* while tmp.parent: the walk does not stop at the first color
RECURSIVE walkColor_noStop(_, _)
walkColor_noStop(c, tmp) ==
    IF parent[tmp] # NoParent
    THEN walkColor_noStop(color[parent[tmp]], parent[tmp])
    ELSE c

\* lines 127-129: while not color and tmp.parent
RECURSIVE walkColor(_, _)
walkColor(c, tmp) ==
    IF c = None /\ parent[tmp] # NoParent
    THEN walkColor(color[parent[tmp]], parent[tmp])
    ELSE c

\* the walk up the parents is made whatever the flag
handleColors_inherit(L, lab, subassy, v) ==
    LET c == walkColor(color[v], v)
    IN  IF c = None THEN L
        ELSE IF coloredSTEP THEN setColor(L, lab, c) ELSE setColor(L, subassy, c)

\* lines 124-134
handleColors(L, lab, subassy, v) ==
    IF coloredSTEP
    THEN LET c == walkColor(color[v], v)
         IN  IF c # None THEN setColor(L, lab, c) ELSE L
    ELSE IF color[v] # None THEN setColor(L, subassy, color[v]) ELSE L

\* subassys.setdefault(k, ...): the first entry of a key is kept
record_keepFirst(map, k, entry) ==
    [n \in DOMAIN map \cup {k} |-> IF n \in DOMAIN map THEN map[n] ELSE entry]

\* line 136: subassys[k] = (subassy, v.loc)
record(map, k, entry) ==
    [n \in DOMAIN map \cup {k} |-> IF n = k THEN entry ELSE map[n]]

\* a child whose name is not in the map is skipped
RECURSIVE wireChildren_skip(_, _, _, _)
wireChildren_skip(L, subassy, chs, map) ==
    IF chs = <<>> THEN [labels |-> L, err |-> NoErr]
    ELSE LET ch == Head(chs)
         IN  IF name[ch] \notin DOMAIN map
             THEN wireChildren_skip(L, subassy, Tail(chs), map)
             ELSE wireChildren_skip(
                     AddComponent(L, subassy, map[name[ch]][1], map[name[ch]][2]),
                     subassy, Tail(chs), map)

\* the children are placed with the placement of the node being processed
RECURSIVE wireChildren_parentLoc(_, _, _, _)
wireChildren_parentLoc(L, subassy, chs, map) ==
    IF chs = <<>> THEN [labels |-> L, err |-> NoErr]
    ELSE LET ch == Head(chs)
         IN  IF name[ch] \notin DOMAIN map
             THEN [labels |-> L,
                   err |-> [type |-> "KeyError", key |-> name[ch], line |-> 140]]
             ELSE wireChildren_parentLoc(
                     AddComponent(L, subassy, map[name[ch]][1], loc[parent[ch]]),
                     subassy, Tail(chs), map)

\* lines 138-141: for ch in v.children: tool.AddComponent(subassy,
\* subassys[ch.name][0], subassys[ch.name][1].wrapped); a missing key raises
\* KeyError at the lookup
RECURSIVE wireChildren(_, _, _, _)
wireChildren(L, subassy, chs, map) ==
    IF chs = <<>> THEN [labels |-> L, err |-> NoErr]
    ELSE LET ch == Head(chs)
         IN  IF name[ch] \notin DOMAIN map
             THEN [labels |-> L,
                   err |-> [type |-> "KeyError", key |-> name[ch], line |-> 140]]
             ELSE wireChildren(
                     AddComponent(L, subassy, map[name[ch]][1], map[name[ch]][2]),
                     subassy, Tail(chs), map)

\* the root instance placed at the identity
addRoot_identity(L, t, map) == AddComponent(L, t, map[name[assy]][1], Identity)

\* line 143: tool.AddComponent(top, subassys[assy.name][0], assy.loc.wrapped)
addRoot(L, t, map) == AddComponent(L, t, map[name[assy]][1], loc[assy])

\* a key that is not the node's name: the name qualified by the parent's
qualified(v) ==
    IF parent[v] = NoParent THEN "/" \o name[v]
    ELSE name[parent[v]] \o "/" \o name[v]

\* what assy.traverse() may yield as its i-th pair.  In the first call: any node
\* not yet yielded, in any order, keyed by its name or by its qualified name,
\* so a traversal may omit nodes, yield a parent before its child and repeat a
\* key.  A later call on the unchanged tree yields what the first was given.
traverse(i) ==
    IF history = <<>>
    THEN { kv \in (Names \cup { qualified(v) : v \in Nodes }) \X Nodes :
             /\ kv[1] \in {name[kv[2]], qualified(kv[2])}
             /\ \A j \in 1 .. Len(yielded) : yielded[j].node # kv[2] }
    ELSE IF i <= Len(history[1].yielded)
         THEN {<<history[1].yielded[i].key, history[1].yielded[i].node>>}
         ELSE {}

\* whether traverse() may stop before its i-th pair
exhausted(i) ==
    IF history = <<>> THEN TRUE ELSE i > Len(history[1].yielded)

\* lines 100-111: the document, its tools, the root label and the empty map
Start ==
    /\ pc = "idle"
    /\ LET ds == TDocStd_Document(docs)
           d  == Len(ds)
           t  == Len(ds[d]) + 1
       IN  /\ docs' = [ds EXCEPT ![d] = setName(NewShape(ds[d]), t, RootName)]
           /\ updated' = [i \in 1 .. d |-> IF i = d THEN FALSE ELSE updated[i]]
           /\ doc' = d
           /\ top' = Label(d, t)
    /\ subassys' = <<>>
    /\ yielded' = <<>>
    /\ pc' = "loop"
    /\ UNCHANGED <<treeVars, result, err, history, colorVars>>

\* lines 112-141: one turn of the loop over assy.traverse()
Iterate ==
    /\ pc = "loop"
    /\ \E kv \in traverse(Len(yielded) + 1) :
         LET k  == kv[1]
             v  == kv[2]
             L0 == docs[doc]
             lab     == Len(L0) + 1
             subassy == Len(L0) + 2
             L1 == leafPart(L0, lab, k, v)
             L2 == assyPart(L1, doc, lab, subassy, k)
             L3 == handleColors(L2, lab, subassy, v)
             map == record(subassys, k, <<Label(doc, subassy), loc[v]>>)
             w  == wireChildren(L3, subassy, children(v), map)
         IN  /\ docs' = [docs EXCEPT ![doc] = w.labels]
             /\ subassys' = map
             /\ yielded' = Append(yielded,
                    [key |-> k, node |-> v, lab |-> Label(doc, lab),
                     subassy |-> Label(doc, subassy)])
             /\ err' = w.err
             /\ pc' = IF w.err = NoErr THEN "loop" ELSE "error"
    /\ UNCHANGED <<treeVars, updated, doc, top, result, history, colorVars>>

\* lines 143-146: the root instance, UpdateAssemblies and the return
Finish ==
    /\ pc = "loop"
    /\ exhausted(Len(yielded) + 1)
    /\ IF name[assy] \in DOMAIN subassys
       THEN /\ docs' = [docs EXCEPT ![doc] = addRoot(@, top.tag, subassys)]
            /\ updated' = [updated EXCEPT ![doc] = TRUE]
            /\ result' = <<top, doc>>
            /\ pc' = "done"
            /\ err' = NoErr
       ELSE /\ err' = [type |-> "KeyError", key |-> name[assy], line |-> 143]
            /\ pc' = "error"
            /\ UNCHANGED <<docs, updated, result>>
    /\ UNCHANGED <<treeVars, doc, top, subassys, yielded, history, colorVars>>

\* the caller calls toCAF again on the same tree with the same flag
CallAgain ==
    /\ pc \in {"done", "error"}
    /\ history = <<>>
    /\ history' = Append(history,
           [pc |-> pc, result |-> result, yielded |-> yielded, err |-> err])
    /\ pc' = "idle"
    /\ result' = NoResult
    /\ err' = NoErr
    /\ UNCHANGED <<treeVars, docs, updated, doc, top, subassys, yielded, colorVars>>

\* ------------------------------------------------------------------ Color
\* Channel values in hundredths: 0, 0.5 and 1.  A positional argument is a
\* string or a number.
Channels == {0, 50, 100}
Str(s)   == [str |-> s]
Num(x)   == [num |-> x]
isStr(x) == DOMAIN x = {"str"}

\* the kernel's palette, as far as it is explored
KnownColors == {"red", "green"}
Quantity_ColorRGBA(r, g, b, a) == [r |-> r, g |-> g, b |-> b, a |-> a]
NoColor == Quantity_ColorRGBA(-1, -1, -1, -1)

\* Quantity_ColorRGBA.ColorFromName_s: whether the name exists, and the color
ColorFromName(n) ==
    IF n = "red" THEN Quantity_ColorRGBA(100, 0, 0, 100)
    ELSE IF n = "green" THEN Quantity_ColorRGBA(0, 100, 0, 100)
    ELSE NoColor

\* kwargs.get("a"), as the condition of an if
truthy(kw, key) == key \in DOMAIN kw /\ kw[key] # 0

\* Color.__init__(self, *args, **kwargs): the wrapped color and the exception
ColorInit(args, kwargs) ==
    IF Len(args) = 1
    THEN IF ~isStr(args[1])
         THEN [wrapped |-> NoColor, err |-> "TypeError"]
         ELSE IF args[1].str \in KnownColors
         THEN [wrapped |-> ColorFromName(args[1].str), err |-> "None"]
         ELSE [wrapped |-> NoColor, err |-> "ValueError"]
    ELSE IF Len(args) = 3
    THEN [wrapped |-> Quantity_ColorRGBA(args[1].num, args[2].num, args[3].num,
                        IF truthy(kwargs, "a") THEN kwargs["a"] ELSE 100),
          err |-> "None"]
    ELSE IF Len(args) = 4
    THEN [wrapped |-> Quantity_ColorRGBA(args[1].num, args[2].num, args[3].num,
                                         args[4].num),
          err |-> "None"]
    ELSE [wrapped |-> NoColor, err |-> "ValueError"]

Construct ==
    /\ cerr = "pending"
    /\ cwrapped' = ColorInit(cargs, ckwargs).wrapped
    /\ cerr' = ColorInit(cargs, ckwargs).err
    /\ UNCHANGED <<treeVars, callVars, history, cargs, ckwargs>>

\* the calls explored: up to five positional arguments, and the keyword sets
\* {}, {a}, {x}, {a, x}, {r, g, b} and {r, g, b, a}
NumArgs  == { Num(x) : x \in Channels }
ArgLists ==
    {<<>>}
    \cup { <<Str(n)>> : n \in KnownColors \cup {"nosuch", ""} }
    \cup { <<x>> : x \in NumArgs }
    \cup (NumArgs \X NumArgs)
    \cup (NumArgs \X NumArgs \X NumArgs)
    \cup (NumArgs \X NumArgs \X NumArgs \X NumArgs)
    \cup { <<Num(0), Num(50), Num(100), x, y>> : x, y \in NumArgs }
KwargSets ==
    [{} -> Channels]
    \cup [{"a"} -> Channels]
    \cup [{"x"} -> {50}]
    \cup [{"a", "x"} -> {50}]
    \cup [{"r", "g", "b"} -> {50}]
    \cup [{"r", "g", "b", "a"} -> {50}]

\* ------------------------------------------------------------------ Init
\* one assembly tree rooted at node 1, a parent before its children
Trees ==
    { p \in [Nodes -> {NoParent} \cup Nodes] :
        \A n \in Nodes : IF n = 1 THEN p[n] = NoParent ELSE p[n] \in 1 .. n - 1 }

\* Names up to renaming: node n takes a name already used by a smaller node or
\* the next unused one.
Naming ==
    { ix \in [Nodes -> Nodes] :
        \A n \in Nodes :
            \/ ix[n] = 1
            \/ \E m \in 1 .. n - 1 : ix[n] <= ix[m] + 1 }

\* Every node owns its placement, its shapes and, when it is colored, its Color
\* object.  toCAF reads names only to wire and colors only to color, so repeated
\* names are explored on uncolored trees and colors on trees of unique names.
InitTree ==
    /\ parent \in Trees
    /\ \E ix \in Naming : name = [n \in Nodes |-> NameSeq[ix[n]]]
    /\ loc = [n \in Nodes |-> <<"loc", n>>]
    /\ color \in { c \in [Nodes -> {None} \cup { ColorSeq[n] : n \in Nodes }] :
                    \A n \in Nodes : c[n] \in {None, ColorSeq[n]} }
    /\ \/ \A n \in Nodes : color[n] = None
       \/ \A m, n \in Nodes : name[m] = name[n] => m = n
    /\ shapes = [n \in Nodes |-> {<<"shape", n>>}]
    /\ assy \in Nodes
    /\ coloredSTEP \in BOOLEAN

InitCall ==
    /\ docs = <<>>
    /\ updated = <<>>
    /\ pc = "idle"
    /\ doc = 0
    /\ top = NoLabel
    /\ subassys = <<>>
    /\ yielded = <<>>
    /\ result = NoResult
    /\ err = NoErr
    /\ history = <<>>

\* no Color is being constructed
NoColorCall ==
    /\ cargs = <<>>
    /\ ckwargs = <<>>
    /\ cwrapped = NoColor
    /\ cerr = "None"

Init == InitTree /\ InitCall /\ NoColorCall

Next == Start \/ Iterate \/ Finish

Spec == Init /\ [][Next]_vars

\* toCAF called twice on the root of one tree
InitTwice == Init /\ assy = 1

NextTwice == Next \/ CallAgain

SpecTwice == InitTwice /\ [][NextTwice]_vars

\* Color.__init__ on its own: one construction per behaviour, toCAF not called
InitColor ==
    /\ parent = [n \in Nodes |-> n - 1]
    /\ name = [n \in Nodes |-> NameSeq[n]]
    /\ loc = [n \in Nodes |-> <<"loc", n>>]
    /\ color = [n \in Nodes |-> None]
    /\ shapes = [n \in Nodes |-> {<<"shape", n>>}]
    /\ assy = 1
    /\ coloredSTEP = FALSE
    /\ InitCall
    /\ cargs \in ArgLists
    /\ ckwargs \in KwargSets
    /\ cwrapped = NoColor
    /\ cerr = "pending"

NextColor == Construct

SpecColor == InitColor /\ [][NextColor]_vars

\* ------------------------------------------------------------ properties
\* the label a handle refers to
At(l) == docs[l.doc][l.tag]

Pairs == 1 .. Len(yielded)

\* every component link of the document of this call, with the label holding it
Links ==
    UNION { { [from |-> Label(doc, t), ref |-> docs[doc][t].comps[i].ref,
               loc |-> docs[doc][t].comps[i].loc] :
                i \in 1 .. Len(docs[doc][t].comps) } : t \in 1 .. Len(docs[doc]) }

\* C1: a completed toCAF has made exactly 2N+1 labels for the N pairs yielded:
\* the root label "CQ assembly" and, for each pair (k, v), its own part label
\* named k_part holding the compound of v's own shapes and its own assembly
\* label named k.
C1_LabelCount ==
    pc = "done" =>
        /\ Len(docs[doc]) = 2 * Len(yielded) + 1
        /\ At(top).name = RootName
        /\ \A i \in Pairs :
              /\ At(yielded[i].lab).name = yielded[i].key \o "_part"
              /\ At(yielded[i].lab).shape = [compound |-> shapes[yielded[i].node]]
              /\ At(yielded[i].subassy).name = yielded[i].key
        /\ Cardinality({top} \cup { yielded[i].lab : i \in Pairs }
                             \cup { yielded[i].subassy : i \in Pairs })
               = 2 * Len(yielded) + 1

C1_Witness ==
    /\ pc = "done"
    /\ Len(yielded) = 3
    /\ \E i \in Pairs : children(yielded[i].node) # <<>>

\* C2: a component link from the assembly label of a node p to the assembly
\* label of a child c of p carries c's placement, not p's.
C2_ChildPlacement ==
    doc > 0 =>
        \A i, j \in Pairs :
            parent[yielded[j].node] = yielded[i].node =>
                \A t \in 1 .. Len(At(yielded[i].subassy).comps) :
                    LET link == At(yielded[i].subassy).comps[t]
                    IN  link.ref = yielded[j].subassy =>
                            /\ link.loc = loc[yielded[j].node]
                            /\ link.loc # loc[yielded[i].node]

C2_Witness ==
    /\ pc = "done"
    /\ \E i, j \in Pairs :
          /\ parent[yielded[j].node] = yielded[i].node
          /\ \E t \in 1 .. Len(At(yielded[i].subassy).comps) :
                At(yielded[i].subassy).comps[t].ref = yielded[j].subassy

\* C3: with coloredSTEP=False the assembly label of a pair carries the node's
\* own color and no color when the node has none, whatever its ancestors have,
\* and the part label carries no color.
C3_OwnColorOnly ==
    (doc > 0 /\ ~coloredSTEP) =>
        \A i \in Pairs :
            /\ At(yielded[i].subassy).color = color[yielded[i].node]
            /\ At(yielded[i].lab).color = None

C3_Witness ==
    /\ pc = "done"
    /\ ~coloredSTEP
    /\ \E i, j \in Pairs :
          /\ color[yielded[i].node] = None
          /\ parent[yielded[i].node] # NoParent
          /\ color[parent[yielded[i].node]] # None
          /\ color[yielded[j].node] # None
          /\ At(yielded[j].subassy).color # None

\* the d-th node of the chain v, v.parent, v.parent.parent, ... (NoParent past
\* its end)
RECURSIVE chainAt(_, _)
chainAt(v, d) ==
    IF d = 0 \/ v = NoParent THEN v ELSE chainAt(parent[v], d - 1)

\* c is the color of the nearest colored node of v's chain
Nearest(v, c) ==
    \E d \in 0 .. NumNodes :
        /\ chainAt(v, d) # NoParent
        /\ color[chainAt(v, d)] = c
        /\ \A e \in 0 .. d - 1 : color[chainAt(v, e)] = None

Uncolored(v) ==
    \A d \in 0 .. NumNodes : chainAt(v, d) # NoParent => color[chainAt(v, d)] = None

\* C4: with coloredSTEP=True the part label of a pair carries the color of the
\* nearest colored node of the chain node, parent, grandparent, ..., no color
\* when that chain has none, and the assembly label carries no color.
C4_NearestColor ==
    (doc > 0 /\ coloredSTEP) =>
        \A i \in Pairs :
            /\ At(yielded[i].subassy).color = None
            /\ IF Uncolored(yielded[i].node)
               THEN At(yielded[i].lab).color = None
               ELSE /\ At(yielded[i].lab).color # None
                    /\ Nearest(yielded[i].node, At(yielded[i].lab).color)

C4_Witness ==
    /\ pc = "done"
    /\ coloredSTEP
    /\ \E i \in Pairs :
          LET v == yielded[i].node
          IN  /\ color[v] = None
              /\ parent[v] # NoParent
              /\ color[parent[v]] # None
              /\ parent[parent[v]] # NoParent
              /\ color[parent[parent[v]]] # None
              /\ At(yielded[i].lab).color = color[parent[v]]

\* the nodes of the tree toCAF is called on: assy and its descendants
Tree == { n \in Nodes : \E d \in 0 .. NumNodes : chainAt(n, d) = assy }

UniqueNames == \A m, n \in Tree : name[m] = name[n] => m = n

\* traverse() has so far yielded nodes of the tree, each once, keyed by its
\* name and after all of its children
PostOrder ==
    \A i \in Pairs :
        /\ yielded[i].key = name[yielded[i].node]
        /\ yielded[i].node \in Tree
        /\ \A j \in Pairs : yielded[j].node = yielded[i].node => j = i
        /\ \A c \in Nodes :
              parent[c] = yielded[i].node =>
                  \E j \in 1 .. i - 1 : yielded[j].node = c

Complete == { yielded[i].node : i \in Pairs } = Tree

\* the assembly label made for node n
sub(n) == yielded[CHOOSE i \in Pairs : yielded[i].node = n].subassy

\* the labels contained in label l, through any number of component links
RECURSIVE contained(_, _)
contained(S, n) ==
    IF n = 0 THEN S
    ELSE contained(S \cup { k.ref : k \in { x \in Links : x.from \in S } }, n - 1)

\* C5: on a tree with unique names that traverse() yields in post-order, keyed
\* by name, toCAF raises nothing and returns a document that mirrors the tree:
\* the root label holds only the instance of assy at assy's placement, every
\* other node's assembly label is a component of its parent's assembly label
\* alone, at the node's own placement, and every node's assembly label is
\* contained in the root label.
C5_MirrorsTree ==
    /\ (pc = "error" /\ err.line = 140) => ~(UniqueNames /\ PostOrder)
    /\ (pc = "error" /\ err.line = 143) => ~(UniqueNames /\ PostOrder /\ Complete)
    /\ (pc = "done" /\ UniqueNames /\ PostOrder /\ Complete) =>
          /\ At(top).comps = << [ref |-> sub(assy), loc |-> loc[assy]] >>
          /\ { k \in Links : k.ref = sub(assy) }
                 = { [from |-> top, ref |-> sub(assy), loc |-> loc[assy]] }
          /\ \A n \in Tree \ {assy} :
                { k \in Links : k.ref = sub(n) }
                    = { [from |-> sub(parent[n]), ref |-> sub(n), loc |-> loc[n]] }
          /\ \A n \in Tree : sub(n) \in contained({top}, Len(docs[doc]))

C5_Witness ==
    /\ pc = "done"
    /\ UniqueNames /\ PostOrder /\ Complete
    /\ Cardinality(Tree) >= 3
    /\ \E n \in Tree : parent[n] # NoParent /\ parent[n] # assy

\* a turn of the loop that meets a child whose name is not a key of the map
\* (which by then holds the key of the turn) stops at that child
C8_Turn ==
    (pc = "loop" /\ Len(yielded') = Len(yielded) + 1) =>
        LET e   == yielded'[Len(yielded')]
            chs == children(e.node)
            missing == { t \in 1 .. Len(chs) :
                            name[chs[t]] \notin DOMAIN subassys \cup {e.key} }
        IN  missing # {} =>
              LET first == CHOOSE t \in missing : \A u \in missing : t <= u
              IN  /\ pc' = "error"
                  /\ err' = [type |-> "KeyError", key |-> name[chs[first]],
                             line |-> 140]
                  /\ Len(docs'[doc'][e.subassy.tag].comps) = first
                  /\ result' = NoResult
                  /\ ~updated'[doc']

\* C8: a turn of the loop that meets a child whose name is not a key of the map
\* raises KeyError at that child: the children before it are wired, none after
\* it, UpdateAssemblies does not run and nothing is returned, then or later.
C8_FailFast ==
    /\ [][C8_Turn /\ (pc = "error" => pc' = "error")]_vars
    /\ [](pc = "error" => (result = NoResult /\ ~updated[doc]))

C8_Witness ==
    /\ pc = "error"
    /\ err.line = 140
    /\ Len(At(yielded[Len(yielded)].subassy).comps) = 2
    /\ Len(children(yielded[Len(yielded)].node)) = 2

\* the last of the first m pairs that was keyed k
latest(k, m) ==
    CHOOSE i \in 1 .. m :
        yielded[i].key = k /\ \A j \in 1 .. m : yielded[j].key = k => j <= i

\* C10: a key yielded again raises nothing: the only error is a KeyError for a
\* key never yielded; the map holds, for each key, the label and placement of
\* the last pair yielded with it; each child of a pair is wired to the label and
\* placement of the last pair keyed by the child's name at that time; and a
\* label whose map entry was overwritten is referred to only by pairs processed
\* before the overwrite, never by the root label.
C10_LastWins ==
    doc > 0 =>
        /\ pc = "error" =>
              (err.type = "KeyError" /\ \A i \in Pairs : yielded[i].key # err.key)
        /\ DOMAIN subassys = { yielded[i].key : i \in Pairs }
        /\ \A k \in DOMAIN subassys :
              subassys[k] = << yielded[latest(k, Len(yielded))].subassy,
                               loc[yielded[latest(k, Len(yielded))].node] >>
        /\ \A m \in Pairs :
              \A t \in 2 .. Len(At(yielded[m].subassy).comps) :
                  LET c == children(yielded[m].node)[t - 1]
                      j == latest(name[c], m)
                  IN  At(yielded[m].subassy).comps[t]
                          = [ref |-> yielded[j].subassy, loc |-> loc[yielded[j].node]]
        /\ \A i, j \in Pairs :
              (i < j /\ yielded[i].key = yielded[j].key) =>
                  \A k \in Links :
                      k.ref = yielded[i].subassy =>
                          \E m \in 1 .. j - 1 : k.from = yielded[m].subassy

C10_Witness ==
    /\ pc = "done"
    /\ \E i, j, m \in Pairs :
          /\ i < j /\ j < m
          /\ yielded[i].key = yielded[j].key
          /\ yielded[i].node # yielded[j].node
          /\ \E k \in Links : k.from = yielded[m].subassy /\ k.ref = yielded[j].subassy
          /\ \A k \in Links : k.ref # yielded[i].subassy

\* a document without the identity of its labels: names, shapes, colors and
\* component links by tag
content(d) ==
    [t \in 1 .. Len(docs[d]) |->
        [name |-> docs[d][t].name, shape |-> docs[d][t].shape,
         color |-> docs[d][t].color,
         comps |-> [i \in 1 .. Len(docs[d][t].comps) |->
                       <<docs[d][t].comps[i].ref.tag, docs[d][t].comps[i].loc>>]]]

\* every link of document d refers to a label of document d
closed(d) ==
    \A t \in 1 .. Len(docs[d]) :
        \A i \in 1 .. Len(docs[d][t].comps) :
            /\ docs[d][t].comps[i].ref.doc = d
            /\ docs[d][t].comps[i].ref.tag \in 1 .. Len(docs[d])

C9_TwoDocuments ==
    \A h \in 1 .. Len(history) :
        (pc = "done" /\ history[h].pc = "done") =>
            LET r1 == history[h].result
                r2 == result
            IN  /\ r1[2] # r2[2]
                /\ r1[1].doc = r1[2] /\ r2[1].doc = r2[2]
                /\ closed(r1[2]) /\ closed(r2[2])
                /\ r1[1].tag = r2[1].tag
                /\ content(r1[2]) = content(r2[2])

\* C9: no step of toCAF, successful or failing, changes the tree, and two
\* completed calls on one tree return different documents, whose links stay
\* inside each document, with the same labels, names, shapes, colors and links.
C9_Frame ==
    /\ [][treeVars' = treeVars]_vars
    /\ []C9_TwoDocuments

C9_Witness ==
    /\ pc = "done"
    /\ Len(history) = 1
    /\ history[1].pc = "done"
    /\ Len(yielded) >= 2
    /\ \E i, j \in Pairs :
          \E k \in Links : k.from = yielded[i].subassy /\ k.ref = yielded[j].subassy

\* ---------------------------------------------------- Color properties
DocumentedAlpha == 0

onlyAlpha(kw) == DOMAIN kw = {"a"}

\* C6: Color(r, g, b, a) and Color(r, g, b, a=a) read back as (r, g, b, a), and
\* Color(r, g, b) has the documented default alpha.
C6_RoundTrip ==
    cerr # "pending" =>
        /\ (Len(cargs) = 4 /\ DOMAIN ckwargs = {}) =>
              /\ cerr = "None"
              /\ cwrapped = [r |-> cargs[1].num, g |-> cargs[2].num,
                             b |-> cargs[3].num, a |-> cargs[4].num]
        /\ (Len(cargs) = 3 /\ onlyAlpha(ckwargs)) =>
              /\ cerr = "None"
              /\ cwrapped = [r |-> cargs[1].num, g |-> cargs[2].num,
                             b |-> cargs[3].num, a |-> ckwargs["a"]]
        /\ (Len(cargs) = 3 /\ DOMAIN ckwargs = {}) =>
              /\ cerr = "None"
              /\ cwrapped = [r |-> cargs[1].num, g |-> cargs[2].num,
                             b |-> cargs[3].num, a |-> DocumentedAlpha]

\* the argument shapes of the two overloads: (name), (r, g, b) with an optional
\* named a, and (r, g, b, a)
declaredShape(args, kw) ==
    \/ Len(args) = 1 /\ DOMAIN kw = {}
    \/ Len(args) = 3 /\ DOMAIN kw \subseteq {"a"}
    \/ Len(args) = 4 /\ DOMAIN kw = {}

\* C7: construction succeeds for a recognized name and raises, leaving no
\* Color, for an unrecognized single argument and for every call outside the
\* declared argument shapes.
C7_Rejects ==
    cerr # "pending" =>
        /\ (Len(cargs) = 1 /\ DOMAIN ckwargs = {} /\ isStr(cargs[1])
                /\ cargs[1].str \in KnownColors) => cerr = "None"
        /\ (Len(cargs) = 1 /\ (~isStr(cargs[1]) \/ cargs[1].str \notin KnownColors))
              => (cerr # "None" /\ cwrapped = NoColor)
        /\ ~declaredShape(cargs, ckwargs) => (cerr # "None" /\ cwrapped = NoColor)

=============================================================================
